---- MODULE Spec2Model ----
(***************************************************************************)
(* Credit accounting and payment approval of the code generator:           *)
(*   - the generate-code edge function (credit-gated generation),          *)
(*   - the process-payment edge function (payment intake),                 *)
(*   - the approve-payment edge function (admin review),                   *)
(*   - the Generate page's cost estimate (calculateCredits / generateCode).*)
(* Every handler is a sequence of awaited store calls; each awaited call   *)
(* is one atomic step, and handlers of different requests interleave       *)
(* between their steps.  A store call may fail; the handler reacts to the  *)
(* failure exactly as its code does (throws, logs, or ignores it).         *)
(***************************************************************************)
EXTENDS Integers, Sequences, FiniteSets, Bags, TLC

\* ------------------------------------------------------------------ bounds
\* Number of handler invocations (requests) in one behaviour.
MaxReq == 3
\* Number of store calls that fail in one behaviour.
MaxFaults == 1
\* Balance of the account that has already spent most of its signup grant.
AgedBalance == 5

\* ------------------------------------------------------- program constants
\* handle_new_user: 50 free credits and a matching bonus entry.
SignupGrant == 50

\* ------------------------------------------------------------ fixed sets
\* Invocation slots: at most two handlers are in flight at a time.
Reqs == {1, 2}
Users == {"u1", "u2", "adm"}
NoUser == "nobody"
\* profiles.role of every account
RoleOf(u) == IF u = "adm" THEN "admin" ELSE "user"

\* Bearer credentials: none, one the identity provider rejects, or a
\* user's own token (auth.getUser resolves it to that user).
Creds == {"none", "invalid"} \cup {"u1", "adm"}
\* the callers of generate and of submitPayment
UserCreds == {"none", "invalid", "u1"}

Undefined == "undefined"

\* payment_methods rows (name is the key used by the handler); "nomethod" is
\* an id no row has.
MethodNames == {"manual", "bkash"}
MethodIds == MethodNames \cup {"nomethod"}

\* payment amounts in hundredths (DECIMAL(10,2)): 2.50 and -1.50
Amounts == {250, -150}
\* creditsToAward values an admin request carries
Awards == {0, 5, -5}
\* status values the admin page sends with a review request
ReviewStatuses == {"approved", "rejected"}
\* status values a request body may carry: those, or any other string
RequestStatuses == ReviewStatuses \cup {"archived"}

\* ------------------------------------------------------------ cost logic
\* JavaScript truthiness of an optional string
Truthy(s) == s # "" /\ s # Undefined

\* generate-code: destructuring default of complexity
ComplexityOrDefault(c) == IF c = Undefined THEN "intermediate" ELSE c

\* A cost that leaves the framework out.
creditsToDeductNoFramework(body) ==
  1 + (IF ComplexityOrDefault(body.complexity) = "advanced" THEN 1 ELSE 0)
    + (IF body.includeTests THEN 1 ELSE 0)

\* generate-code: "Calculate credits to deduct"
creditsToDeduct(body) ==
  1 + (IF ComplexityOrDefault(body.complexity) = "advanced" THEN 1 ELSE 0)
    + (IF body.includeTests THEN 1 ELSE 0)
    + (IF Truthy(body.framework) THEN 1 ELSE 0)

\* A level table that prices every level by its rank.
LevelCreditsByRank(c) ==
  CASE c = "simple" -> 1
    [] c = "intermediate" -> 2
    [] c = "advanced" -> 3
    [] OTHER -> 0

\* Generate page: COMPLEXITY_LEVELS[...].credits
LevelCredits(c) ==
  CASE c = "simple" -> 1
    [] c = "intermediate" -> 1
    [] c = "advanced" -> 2
    [] OTHER -> 0

\* Generate page: calculateCredits over the form state
calculateCredits(f) ==
  (IF LevelCredits(f.complexity) # 0 THEN LevelCredits(f.complexity) ELSE 1)
    + (IF f.includeTests THEN 1 ELSE 0)
    + (IF Truthy(f.framework) THEN 1 ELSE 0)

\* Generate page: the request body generateCode builds from the form state
BuildBody(f) ==
  [prompt |-> TRUE, language |-> Truthy(f.language),
   complexity |-> f.complexity, includeTests |-> f.includeTests,
   framework |-> IF Truthy(f.framework) THEN f.framework ELSE Undefined]

\* process-payment: Math.floor(amount), amount in hundredths
Floor100(a) == a \div 100

\* ------------------------------------------------------------ request bodies
\* Bodies of generate requests used in the interleaving model: cost 1,
\* cost 4 and one without a prompt.
GenBodies ==
  { [prompt |-> TRUE, language |-> TRUE, complexity |-> "simple",
     includeTests |-> FALSE, framework |-> Undefined],
    [prompt |-> TRUE, language |-> TRUE, complexity |-> "advanced",
     includeTests |-> TRUE, framework |-> "React"],
    [prompt |-> FALSE, language |-> TRUE, complexity |-> Undefined,
     includeTests |-> FALSE, framework |-> Undefined] }

NoBody ==
  [prompt |-> FALSE, language |-> FALSE, complexity |-> Undefined,
   includeTests |-> FALSE, framework |-> Undefined]

\* ------------------------------------------------------------------ state
VARIABLES
  credits,      \* public.credits: user -> sequence of the amounts of its rows
  ledger,       \* public.credit_transactions: bag of [user, amount, type, ref]
  generations,  \* public.code_generations: bag of [user, credits_used]
  payments,     \* public.payment_transactions: id -> row (ids are 1..Len)
  methods,      \* public.payment_methods: name -> is_enabled
  adminLogs,    \* public.admin_logs: bag of [admin, action, target, tx]
  req,          \* the handler invocations in flight: slot -> local state
  started,      \* number of requests made so far
  last,         \* the request answered last, with its response
  reported,     \* some response so far reported a storage error
  okCost,       \* sum of credits_used over the success responses of generate
  faults,       \* store calls that have failed so far
  bal0,         \* the balance every user had in the initial state
  apiKey,       \* api_keys: key_value of the row GEMINI_API_KEY ("" if none)
  form,         \* Generate page: the form's React state
  quote,        \* Generate page: the estimate last computed from the form
  sent,         \* the last generate request body received by the server
  charged,      \* what the server computed as creditsToDeduct for `sent`
  ctx           \* AuthProvider: the React state and the calls it has in flight

storeVars == <<credits, ledger, generations, payments, methods, adminLogs>>
formVars == <<form, quote, sent, charged, ctx>>
histVars == <<reported, okCost>>
vars == <<credits, ledger, generations, payments, methods, adminLogs, req,
          started, last, reported, okCost, faults, bal0, apiKey, ctx, form, quote,
          sent,
          charged>>

\* ------------------------------------------------------------------ helpers
RECURSIVE SumOver(_, _)
\* sum of b[e] * e.amount over the elements e of S
SumOver(S, b) ==
  IF S = {} THEN 0
  ELSE LET e == CHOOSE x \in S : TRUE
       IN  b[e] * e.amount + SumOver(S \ {e}, b)

\* sum of the amounts of a user's credit_transactions
LedgerSum(u) == SumOver({e \in BagToSet(ledger) : e.user = u}, ledger)

\* number of purchase entries whose reference_id is payment transaction t
PurchaseCount(t) ==
  LET S == {e \in BagToSet(ledger) : e.type = "purchase" /\ e.ref = t}
  IN  IF S = {} THEN 0 ELSE BagCardinality([e \in S |-> ledger[e]])

\* sum of the amounts of the purchase entries referencing t
PurchaseSum(t) ==
  SumOver({e \in BagToSet(ledger) : e.type = "purchase" /\ e.ref = t}, ledger)

AddEntry(b, e) == b (+) SetToBag({e})

\* .single(): an error unless exactly one row matches
SingleOk(rows) == Len(rows) = 1

\* .update(...).eq("user_id", u): every row of the user gets the value
SetAll(rows, v) == [i \in DOMAIN rows |-> v]

\* .eq("user_id", u): the rows of public.credits that match
RowsOf(u) == IF u \in DOMAIN credits THEN credits[u] ELSE <<>>

\* An identity provider that vouches for whatever it is shown.
ResolvesAnything(cred) == TRUE

\* auth.getUser(token)
Resolves(cred) == cred \in Users

\* a free invocation slot
IdleReq ==
  [kind |-> "none", pc |-> "idle", user |-> NoUser,
   result |-> "none", bal |-> 0, err |-> FALSE, body |-> NoBody,
   provider |-> "none", tx |-> 0, status |-> "none", c |-> 0,
   method |-> "none", amount |-> 0]

\* a new request takes the lowest free slot
CanStart(r) ==
  /\ started < MaxReq
  /\ req[r].pc = "idle"
  /\ \A q \in Reqs : q < r => req[q].pc # "idle"

NewReq(kind, u) ==
  [IdleReq EXCEPT !.kind = kind, !.pc = "run", !.user = u]

\* store calls may fail while the fault budget lasts
MayFail(F) == faults + Cardinality(F) <= MaxFaults
CountFaults(F) == faults' = faults + Cardinality(F)

\* answers of which `last` keeps the request's details; of the other error
\* answers it keeps the operation, the caller, the balance read and the error
DetailedResults == {"ok", "InsufficientFunds", "ProviderError"}

\* the handler answers: the slot is free again
Respond(r, rec, res) ==
  /\ req' = [req EXCEPT ![r] = IdleReq]
  /\ last' = IF res \in DetailedResults
               THEN [rec EXCEPT !.pc = "done", !.result = res]
               ELSE [IdleReq EXCEPT !.pc = "done", !.result = res,
                                    !.kind = rec.kind, !.user = rec.user,
                                    !.bal = rec.bal, !.err = rec.err]
  /\ reported' = (reported \/ res = "StorageError")

\* the handler goes on to its next store call
Continue(r, rec, pc) ==
  /\ req' = [req EXCEPT ![r] = [rec EXCEPT !.pc = pc]]
  /\ UNCHANGED <<last, reported>>

\* ------------------------------------------------------------------ initial
\* Accounts exist already (handle_new_user ran for each).  u2 and adm are
\* new accounts; u1 has since spent all but AgedBalance credits in
\* generations of cost 4 (and one cheaper generation for the remainder).
PriorCost == 1 + 1 + 1 + 1
PriorSpend == SignupGrant - AgedBalance
PriorRuns == PriorSpend \div PriorCost
PriorRest == PriorSpend % PriorCost

BonusEntry(u) ==
  [user |-> u, amount |-> SignupGrant, type |-> "bonus", ref |-> 0]
UsageEntry(u, cost) ==
  [user |-> u, amount |-> 0 - cost, type |-> "usage", ref |-> 0]
PurchaseEntry(u, amt, t) ==
  [user |-> u, amount |-> amt, type |-> "purchase", ref |-> t]

FreshLedger == SetToBag({BonusEntry(u) : u \in Users})

InitForm ==
  [complexity |-> "intermediate", includeTests |-> FALSE,
   framework |-> "none-selected", language |-> ""]

AgedUsage ==
  [e \in {UsageEntry("u1", PriorCost)} |-> PriorRuns] (+)
  (IF PriorRest = 0 THEN EmptyBag ELSE SetToBag({UsageEntry("u1", PriorRest)}))

AgedGenerations ==
  [g \in {[user |-> "u1", credits_used |-> PriorCost]} |-> PriorRuns] (+)
  (IF PriorRest = 0 THEN EmptyBag
   ELSE SetToBag({[user |-> "u1", credits_used |-> PriorRest]}))

\* AuthProvider as mounted in a browser holding no session: useState(null)
\* for user, profile and credits (null is the empty sequence); token is the
\* session the supabase client holds; timers are the pending setTimeout
\* callbacks, fetches the fetchProfile and fetchCredits calls in flight
InitCtx ==
  [user |-> NoUser, profile |-> <<>>, credits |-> <<>>, token |-> NoUser,
   checked |-> FALSE, signingOut |-> FALSE, timers |-> {}, fetches |-> {}]

Init ==
  /\ credits = [u \in Users |->
       IF u = "u1" THEN <<AgedBalance>> ELSE <<SignupGrant>>]
  /\ ledger = FreshLedger (+) AgedUsage
  /\ generations = AgedGenerations
  /\ payments = <<>>
  /\ methods = [m \in MethodNames |-> m = "manual"]
  /\ adminLogs = EmptyBag
  /\ req = [r \in Reqs |-> IdleReq]
  /\ started = 0
  /\ last = IdleReq
  /\ reported = FALSE
  /\ okCost = 0
  /\ faults = 0
  /\ bal0 = [u \in Users |-> credits[u][1]]
  /\ apiKey = ""
  /\ form = InitForm
  /\ quote = 0
  /\ sent = NoBody
  /\ charged = 0
  /\ ctx = InitCtx

\* ------------------------------------------------------------ generate-code
\* A pre-check that lets a balance of 0 through.
PreCheckFailsBelowZero(readOk, amount) == ~readOk \/ amount < 0

\* `if (!credits || credits.amount < 1) throw ...`
PreCheckFails(readOk, amount) == ~readOk \/ amount < 1

\* Authentication, balance read and pre-check, body validation.
\* f: the balance read fails (credits is null).
GenerateStart(r, cred, body, f) ==
  /\ CanStart(r)
  /\ MayFail(IF f THEN {"read"} ELSE {})
  /\ started' = started + 1
  /\ IF ~Resolves(cred)
       THEN /\ f = FALSE
            /\ Respond(r, NewReq("generate", NoUser), "AuthFailed")
            /\ UNCHANGED faults
       ELSE LET rows == RowsOf(cred)
                readOk == ~f /\ SingleOk(rows)
                amount == IF readOk THEN rows[1] ELSE 0
                rec == [NewReq("generate", cred) EXCEPT
                          !.body = body, !.err = ~readOk, !.bal = amount]
            IN  /\ CountFaults(IF f THEN {"read"} ELSE {})
                /\ IF PreCheckFails(readOk, amount)
                     THEN Respond(r, rec, "InsufficientFunds")
                   ELSE IF ~body.prompt \/ ~body.language
                     THEN Respond(r, rec, "MissingFields")
                   ELSE Continue(r, rec, "provider")
  /\ UNCHANGED <<storeVars, okCost, bal0, apiKey, formVars>>

\* The provider answers with text and the handler goes on to the debit
\* without comparing the cost with the balance.
ProviderOkUnchecked(r) ==
  Continue(r, [req[r] EXCEPT !.provider = "ok"], "debit")

\* The provider answers with text: the cost is computed and checked against
\* the balance read at the start.
ProviderOk(r) ==
  LET rec == [req[r] EXCEPT !.provider = "ok"]
  IN  IF rec.bal < creditsToDeduct(rec.body)
        THEN Respond(r, rec, "InsufficientFunds")
        ELSE Continue(r, rec, "debit")

\* A provider failure after which the handler charges all the same.
ProviderFailsButCharges(r, outcome) ==
  Continue(r, [req[r] EXCEPT !.provider = outcome], "debit")

\* `!geminiResponse.ok`, or no text in the answer: the handler throws.
ProviderFails(r, outcome) ==
  Respond(r, [req[r] EXCEPT !.provider = outcome], "ProviderError")

\* The API key is read (a missing key makes the handler throw like a failed
\* call) and the call to the completion provider returns.
GenerateProvider(r, outcome) ==
  /\ req[r].kind = "generate" /\ req[r].pc = "provider"
  /\ IF outcome = "ok" THEN ProviderOk(r) ELSE ProviderFails(r, outcome)
  /\ UNCHANGED <<storeVars, started, okCost, faults, bal0, apiKey, formVars>>

\* A debit of one credit whatever the cost.
DebitedRowsFlat(r) == SetAll(credits[req[r].user], req[r].bal - 1)

\* `update({ amount: credits.amount - creditsToDeduct })`: the amount read at
\* the start of the handler, minus the cost.
DebitedRows(r) ==
  SetAll(credits[req[r].user], req[r].bal - creditsToDeduct(req[r].body))

\* what the success response carries
CreditsUsed(rec) == creditsToDeduct(rec.body)
RemainingCredits(rec) == rec.bal - creditsToDeduct(rec.body)

\* Deduct the credits, log the usage entry, save the generation, answer.
\* F: the store calls that fail.  A failed debit makes the handler throw;
\* the result of the ledger insert is not looked at; a failed save is only
\* logged.
GenerateDebit(r, F) ==
  /\ req[r].kind = "generate" /\ req[r].pc = "debit"
  /\ MayFail(F) /\ CountFaults(F)
  /\ "debit" \in F => F = {"debit"}
  /\ IF "debit" \in F
       THEN /\ Respond(r, req[r], "StorageError")
            /\ UNCHANGED <<credits, ledger, generations, okCost>>
       ELSE /\ credits' = [credits EXCEPT ![req[r].user] = DebitedRows(r)]
            /\ ledger' = IF "log" \in F THEN ledger
                 ELSE AddEntry(ledger,
                        UsageEntry(req[r].user, CreditsUsed(req[r])))
            /\ generations' = IF "save" \in F THEN generations
                 ELSE AddEntry(generations,
                        [user |-> req[r].user,
                         credits_used |-> CreditsUsed(req[r])])
            /\ Respond(r, req[r], "ok")
            /\ okCost' = okCost + CreditsUsed(req[r])
  /\ UNCHANGED <<payments, methods, adminLogs, started, bal0, apiKey, formVars>>

\* ---------------------------------------------------------- process-payment
\* `.insert({ ..., status: name === "manual" ? "pending" : "processing",
\*            credits_awarded: name === "manual" ? 0 : creditsToAward })`
NewPaymentRow(u, m, a) ==
  [user |-> u, method |-> m, amount |-> a,
   status |-> IF m = "manual" THEN "pending" ELSE "processing",
   credits_awarded |-> IF m = "manual" THEN 0 ELSE Floor100(a)]

\* Every payment goes on to the credit step.
CreditsAtOnceAlways(m) == TRUE

\* `if (paymentMethod.name !== "manual") { ...award credits... }`
CreditsAtOnce(m) == m # "manual"

\* Authentication, method lookup, insert of the payment transaction.
\* f: "lookup" (the method read fails), "insert" (the insert fails), "none".
SubmitStart(r, cred, m, a, f) ==
  /\ CanStart(r)
  /\ MayFail(IF f = "none" THEN {} ELSE {f})
  /\ started' = started + 1
  /\ IF ~Resolves(cred)
       THEN /\ f = "none"
            /\ Respond(r, NewReq("submit", NoUser), "AuthFailed")
            /\ UNCHANGED <<faults, payments>>
       ELSE LET rec == [NewReq("submit", cred) EXCEPT
                          !.method = m, !.amount = a]
                enabled == m \in MethodNames /\ methods[m]
                found == f # "lookup" /\ enabled
            IN  /\ f # "none" => enabled
                /\ CountFaults(IF f = "none" THEN {} ELSE {f})
                /\ IF ~found
                     THEN /\ Respond(r, rec, "InvalidMethod")
                          /\ UNCHANGED payments
                   ELSE IF f = "insert"
                     THEN /\ Respond(r, rec, "StorageError")
                          /\ UNCHANGED payments
                   ELSE /\ payments' =
                             Append(payments, NewPaymentRow(cred, m, a))
                        /\ IF CreditsAtOnce(m)
                             THEN Continue(r,
                                    [rec EXCEPT !.tx = Len(payments) + 1],
                                    "upsert")
                             ELSE Respond(r,
                                    [rec EXCEPT !.tx = Len(payments) + 1],
                                    "ok")
  /\ UNCHANGED <<credits, ledger, generations, methods, adminLogs, okCost,
                 bal0, apiKey, formVars>>

\* columns of public.credits that carry a unique constraint or index: the
\* primary key only (idx_credits_user_id is a plain index)
CreditsUniqueColumns == {"id"}

\* A store that accepts ON CONFLICT on any column.
OnConflictMatchesAny(column) == TRUE

\* INSERT ... ON CONFLICT (column) is accepted only if a unique constraint or
\* index matches the column; otherwise the store answers with an error.
OnConflictMatches(column) == column \in CreditsUniqueColumns

\* `.upsert({ user_id, amount: creditsToAward }, { onConflict: "user_id" })`:
\* the row of the user, replaced by one holding creditsToAward.
UpsertedRows(r) == <<Floor100(req[r].amount)>>

\* Credit the balance; `if (!creditError)` log the purchase entry and mark
\* the transaction completed; answer with success either way.
SubmitUpsert(r) ==
  /\ req[r].kind = "submit" /\ req[r].pc = "upsert"
  /\ IF OnConflictMatches("user_id")
       THEN /\ credits' = [credits EXCEPT ![req[r].user] = UpsertedRows(r)]
            /\ ledger' = AddEntry(ledger,
                 PurchaseEntry(req[r].user, Floor100(req[r].amount),
                               req[r].tx))
            /\ payments' = [payments EXCEPT
                 ![req[r].tx].status = "completed",
                 ![req[r].tx].credits_awarded = Floor100(req[r].amount)]
       ELSE UNCHANGED <<credits, ledger, payments>>
  /\ Respond(r, req[r], "ok")
  /\ UNCHANGED <<generations, methods, adminLogs, started, okCost, faults,
                 bal0, apiKey, formVars>>

\* Payment management page: an admin switches a method on or off.
UpdatePaymentMethod(m, enabled) ==
  /\ started < MaxReq
  /\ methods[m] # enabled
  /\ started' = started + 1
  /\ methods' = [methods EXCEPT ![m] = enabled]
  /\ UNCHANGED <<credits, ledger, generations, payments, adminLogs, req,
                 last, histVars, faults, bal0, apiKey, formVars>>

\* ------------------------------------------------------------ update-api-key
\* key and value of the requests to update-api-key
KeyNames == {"GEMINI_API_KEY", "OTHER_KEY", ""}
KeyValues == {"k1", ""}

\* A role test that lets every authenticated caller through.
IsAdminAnyone(roleRead, u) == TRUE

\* `if (!profile || profile.role !== 'admin')` and, in approve-payment,
\* `if (profile?.role !== "admin")`: the profile was read and its role is admin
IsAdmin(roleRead, u) == roleRead /\ RoleOf(u) = "admin"

\* Authentication, admin check, body validation, upsert of the key, admin
\* log, answer.  F: the store calls that fail: "role" (the profile read),
\* "upsert" (the handler throws), "alog" (the log insert, not looked at).
UpdateApiKey(r, cred, key, value, F) ==
  /\ CanStart(r)
  /\ MayFail(F)
  /\ started' = started + 1
  /\ IF ~Resolves(cred)
       THEN /\ F = {}
            /\ Respond(r, NewReq("apikey", NoUser), "AuthFailed")
            /\ UNCHANGED <<faults, apiKey, adminLogs>>
       ELSE LET rec == NewReq("apikey", cred)
            IN  /\ CountFaults(F)
                /\ IF ~IsAdmin("role" \notin F, cred)
                     THEN /\ F \subseteq {"role"}
                          /\ Respond(r, rec, "Forbidden")
                          /\ UNCHANGED <<apiKey, adminLogs>>
                   ELSE IF ~Truthy(key) \/ ~Truthy(value)
                     THEN /\ F = {}
                          /\ Respond(r, rec, "MissingFields")
                          /\ UNCHANGED <<apiKey, adminLogs>>
                   ELSE IF key # "GEMINI_API_KEY"
                     THEN /\ F = {}
                          /\ Respond(r, rec, "InvalidKey")
                          /\ UNCHANGED <<apiKey, adminLogs>>
                   ELSE IF "upsert" \in F
                     THEN /\ F = {"upsert"}
                          /\ Respond(r, rec, "StorageError")
                          /\ UNCHANGED <<apiKey, adminLogs>>
                   ELSE /\ F \subseteq {"alog"}
                        /\ apiKey' = value
                        /\ adminLogs' = IF "alog" \in F THEN adminLogs
                             ELSE AddEntry(adminLogs,
                                    [admin |-> cred, action |-> "update_api_key",
                                     target |-> NoUser, tx |-> 0])
                        /\ Respond(r, rec, "ok")
  /\ UNCHANGED <<credits, ledger, generations, payments, methods, okCost,
                 bal0, formVars>>

\* ---------------------------------------------------------- approve-payment
\* `.update({ status, admin_notes,
\*            credits_awarded: status === "approved" ? creditsToAward : 0 })`
ReviewedRow(row, status, c) ==
  [row EXCEPT !.status = status,
              !.credits_awarded = IF status = "approved" THEN c ELSE 0]

\* An award step entered for every decision with creditsToAward > 0.
AwardsCreditsAnyStatus(status, c) == c > 0

\* `if (status === "approved" && creditsToAward > 0)`
AwardsCredits(status, c) == status = "approved" /\ c > 0

AdminLogEntry(rec, target) ==
  [admin |-> rec.user, action |-> rec.status, target |-> target,
   tx |-> rec.tx]

\* HTTP status of the answer of approve-payment: 200 from the `try` block,
\* 500 from the `catch` block, whatever was thrown
ReviewHttpStatus(res) == IF res = "ok" THEN 200 ELSE 500

\* Authentication, admin check, fetch of the transaction, status update;
\* without an award to make, also the admin log and the answer.
\* F: the store calls that fail: "role" (the profile read), "fetch" (the
\* transaction read), "update" (the status update, the handler throws),
\* "alog" (the admin log insert, not looked at).
ReviewStart(r, cred, t, status, c, F) ==
  /\ CanStart(r)
  /\ MayFail(F)
  /\ started' = started + 1
  /\ IF ~Resolves(cred)
       THEN /\ F = {}
            /\ Respond(r, NewReq("review", NoUser), "AuthFailed")
            /\ UNCHANGED <<faults, payments, adminLogs>>
       ELSE LET rec == [NewReq("review", cred) EXCEPT
                          !.tx = t, !.status = status, !.c = c]
                admin == IsAdmin("role" \notin F, cred)
                found == "fetch" \notin F /\ t \in DOMAIN payments
            IN  /\ CountFaults(F)
                /\ IF ~admin
                     THEN /\ F \subseteq {"role"}
                          /\ Respond(r, rec, "Forbidden")
                          /\ UNCHANGED <<payments, adminLogs>>
                   ELSE IF ~found
                     THEN /\ F \subseteq {"fetch"}
                          /\ Respond(r, rec, "NotFound")
                          /\ UNCHANGED <<payments, adminLogs>>
                   ELSE IF "update" \in F
                     THEN /\ F = {"update"}
                          /\ Respond(r, rec, "StorageError")
                          /\ UNCHANGED <<payments, adminLogs>>
                   ELSE /\ payments' = [payments EXCEPT
                             ![t] = ReviewedRow(payments[t], status, c)]
                        /\ IF AwardsCredits(status, c)
                             THEN /\ F = {}
                                  /\ Continue(r, rec, "read")
                                  /\ UNCHANGED adminLogs
                             ELSE /\ F \subseteq {"alog"}
                                  /\ adminLogs' = IF "alog" \in F
                                       THEN adminLogs
                                       ELSE AddEntry(adminLogs,
                                              AdminLogEntry(rec,
                                                payments[t].user))
                                  /\ Respond(r, rec, "ok")
  /\ UNCHANGED <<credits, ledger, generations, methods, okCost, bal0, apiKey,
                 formVars>>

\* transaction.user_id
Owner(r) == payments[req[r].tx].user

\* Read the owner's balance.  f: the read fails (creditsError).
ReviewRead(r, f) ==
  /\ req[r].kind = "review" /\ req[r].pc = "read"
  /\ MayFail(IF f THEN {"read"} ELSE {})
  /\ CountFaults(IF f THEN {"read"} ELSE {})
  /\ LET rows == credits[Owner(r)]
         ok == ~f /\ SingleOk(rows)
     IN  Continue(r, [req[r] EXCEPT !.err = ~ok,
                        !.bal = IF ok THEN rows[1] ELSE 0], "award")
  /\ UNCHANGED <<storeVars, started, okCost, bal0, apiKey, formVars>>

\* An award that stores creditsToAward as the new amount.
AwardedRowsReplacing(r) == SetAll(credits[Owner(r)], req[r].c)

\* `amount: (currentCredits?.amount || 0) + creditsToAward`
AwardedRows(r) == SetAll(credits[Owner(r)], req[r].bal + req[r].c)

\* Award the credits, log the purchase entry, log the admin action, answer.
\* F: the store calls that fail.  After a failed read a new row is inserted
\* ("award" failing is not looked at); otherwise the rows are updated and a
\* failed update makes the handler throw.  The results of the two log
\* inserts are not looked at.
ReviewAward(r, F) ==
  /\ req[r].kind = "review" /\ req[r].pc = "award"
  /\ MayFail(F) /\ CountFaults(F)
  /\ F \subseteq {"award", "log", "alog"}
  /\ IF ~req[r].err /\ "award" \in F
       THEN /\ F = {"award"}
            /\ Respond(r, req[r], "StorageError")
            /\ UNCHANGED <<credits, ledger, adminLogs>>
       ELSE /\ credits' =
                 IF "award" \in F THEN credits
                 ELSE IF req[r].err
                   THEN [credits EXCEPT ![Owner(r)] =
                           Append(credits[Owner(r)], req[r].c)]
                 ELSE [credits EXCEPT ![Owner(r)] = AwardedRows(r)]
            /\ ledger' = IF "log" \in F THEN ledger
                 ELSE AddEntry(ledger,
                        PurchaseEntry(Owner(r), req[r].c, req[r].tx))
            /\ adminLogs' = IF "alog" \in F THEN adminLogs
                 ELSE AddEntry(adminLogs, AdminLogEntry(req[r], Owner(r)))
            /\ Respond(r, req[r], "ok")
  /\ UNCHANGED <<generations, payments, methods, started, okCost, bal0, apiKey,
                 formVars>>

\* ------------------------------------------------------------ Generate page
\* values the form's selects offer
ComplexityValues == {"simple", "intermediate", "advanced"}
Languages == {"TypeScript", "SQL"}
\* FRAMEWORKS[language], undefined for a language without an entry
FrameworksOf(l) == IF l = "TypeScript" THEN {"React"} ELSE {}

\* <Select value={complexity} onValueChange={setComplexity}>
SetComplexity(c) ==
  /\ form.complexity # c
  /\ form' = [form EXCEPT !.complexity = c]
  /\ UNCHANGED <<storeVars, req, started, last, histVars, faults, bal0, apiKey, ctx, quote,
                 sent, charged>>

\* <Switch checked={includeTests} onCheckedChange={setIncludeTests}>
SetIncludeTests(b) ==
  /\ form.includeTests # b
  /\ form' = [form EXCEPT !.includeTests = b]
  /\ UNCHANGED <<storeVars, req, started, last, histVars, faults, bal0, apiKey, ctx, quote,
                 sent, charged>>

\* language select: setLanguage(value); setFramework('none-selected')
SelectLanguage(l) ==
  /\ form.language # l
  /\ form' = [form EXCEPT !.language = l, !.framework = "none-selected"]
  /\ UNCHANGED <<storeVars, req, started, last, histVars, faults, bal0, apiKey, ctx, quote,
                 sent, charged>>

\* framework select: setFramework(value === 'none-selected' ? '' : value);
\* the items are "None" (value 'none-selected') and FRAMEWORKS[language]
SelectFramework(v) ==
  /\ v \in {"none-selected"} \cup FrameworksOf(form.language)
  /\ form.framework # v
  /\ form' = [form EXCEPT !.framework = IF v = "none-selected" THEN "" ELSE v]
  /\ UNCHANGED <<storeVars, req, started, last, histVars, faults, bal0, apiKey, ctx, quote,
                 sent, charged>>

\* generateCode: a language is required; the estimate is computed and
\* compared with the balance the page holds; the request is built from the
\* form state and the server computes creditsToDeduct from its body.
FormGenerate ==
  /\ Truthy(form.language)
  /\ quote' = calculateCredits(form)
  /\ IF credits["u1"] = <<>> \/ credits["u1"][1] < calculateCredits(form)
       THEN UNCHANGED <<sent, charged>>
       ELSE /\ sent' = BuildBody(form)
            /\ charged' = creditsToDeduct(BuildBody(form))
  /\ UNCHANGED <<storeVars, req, started, last, histVars, faults, bal0, apiKey, ctx, form>>

\* bodies a caller of the function may post without the page
ApiBodies ==
  [prompt : {TRUE}, language : {TRUE},
   complexity : ComplexityValues \cup {Undefined},
   includeTests : BOOLEAN, framework : {Undefined, "", "React"}]

\* generate-code invoked directly: the server computes creditsToDeduct
ApiGenerate(body) ==
  /\ sent' = body
  /\ charged' = creditsToDeduct(body)
  /\ UNCHANGED <<storeVars, req, started, last, histVars, faults, bal0, apiKey, ctx, form,
                 quote>>

\* ------------------------------------------- direct store access (RLS)
\* A signed-in browser client talks to the store with the caller's own
\* identity; every statement is filtered by the row-level policies of
\* public.credits.  No policy exists for DELETE, so rows cannot be removed.

\* amounts a client may put into a statement
ClientAmounts == {0, 1000}

\* "Users can view their own credits", "Admins can view all credits"
CanViewCredits(u, owner) == owner = u \/ RoleOf(u) = "admin"

\* "Allow credit creation": FOR INSERT WITH CHECK (user_id = auth.uid())
CanInsertCredits(u, owner) == owner = u

\* "System can update credits": FOR UPDATE USING (true)
CanUpdateCredits(u, owner) == TRUE

\* update credits set amount = v where user_id = target, issued by client u:
\* the rows the statement reaches are those u may both view and update
ClientUpdateCredits(u, target, v) ==
  /\ started < MaxReq
  /\ started' = started + 1
  /\ credits' = IF CanViewCredits(u, target) /\ CanUpdateCredits(u, target)
                  THEN [credits EXCEPT ![target] = SetAll(credits[target], v)]
                  ELSE credits
  /\ UNCHANGED <<ledger, generations, payments, methods, adminLogs, req, last,
                 histVars, faults, bal0, apiKey, formVars>>

\* insert into credits (user_id, amount) values (target, v), issued by client u;
\* a row that fails the check is rejected
ClientInsertCredits(u, target, v) ==
  /\ started < MaxReq
  /\ started' = started + 1
  /\ credits' = IF CanInsertCredits(u, target)
                  THEN [credits EXCEPT ![target] = Append(credits[target], v)]
                  ELSE credits
  /\ UNCHANGED <<ledger, generations, payments, methods, adminLogs, req, last,
                 histVars, faults, bal0, apiKey, formVars>>

\* ----------------------------------------------------------- account creation
\* handle_new_user, the trigger that runs inside the statement inserting the
\* row of auth.users: all of its writes happen, or none.

\* people who have no account yet
Newcomers == {"n1", "n2", "n3"}

\* credits the referrer of a new account receives
ReferralBonus == 50

\* raw_user_meta_data->>'referral_code', given as the account whose profile
\* carries the code: none given, a code no profile carries, or an account
ReferralCodes == {NoUser, "bogus"} \cup Users \cup Newcomers

\* accounts that exist: each has a profile
Accounts == DOMAIN credits

\* A new account whose credits row holds nothing.
InitialCreditsNone(n) == <<0>>

\* `INSERT INTO public.credits (user_id, amount) VALUES (NEW.id, 50)`
InitialCredits(n) == <<SignupGrant>>

ReferralEntry(u) ==
  [user |-> u, amount |-> ReferralBonus, type |-> "bonus", ref |-> 0]

\* `SELECT user_id INTO referral_user_id FROM public.profiles
\*  WHERE referral_code = ...` found a profile
ReferrerFound(code) == code \in Accounts

SignUp(n, code) ==
  /\ n \in Newcomers \ Accounts
  /\ LET created == (n :> InitialCredits(n)) @@ credits
         welcomed == AddEntry(ledger, BonusEntry(n))
     IN  IF ReferrerFound(code)
           THEN /\ credits' = [created EXCEPT ![code] =
                                 [i \in DOMAIN @ |-> @[i] + ReferralBonus]]
                /\ ledger' = AddEntry(welcomed, ReferralEntry(code))
           ELSE /\ credits' = created
                /\ ledger' = welcomed
  /\ UNCHANGED <<generations, payments, methods, adminLogs, req, started, last,
                 histVars, faults, bal0, apiKey, formVars>>

\* ------------------------------------------------------------- AuthProvider
\* The client auth context.  The store is read with the session the
\* supabase client holds when the request is sent: under the row-level
\* policies a request sent without the owner's session finds no row.

\* accounts that sign in from this browser
ClientUsers == {"u1", "u2"}

\* fetchProfile(userId) and fetchCredits(userId) are called: the two requests
\* leave with the session the client holds now
FetchesFor(u) ==
  {[kind |-> k, user |-> u, sent |-> ctx.token = u] :
     k \in {"profile", "credits"}}

\* signInWithPassword succeeds: the client holds the session and the
\* onAuthStateChange callback runs with it: setSession, setUser, and the
\* fetches are put off with setTimeout(..., 0)
SignIn(u) ==
  /\ started < MaxReq
  /\ ctx.token = NoUser /\ ~ctx.signingOut
  /\ started' = started + 1
  /\ ctx' = [ctx EXCEPT !.token = u, !.user = u, !.timers = @ \cup {u}]
  /\ UNCHANGED <<storeVars, req, last, histVars, faults, bal0, apiKey, form,
                 quote, sent, charged>>

\* the callback given to setTimeout runs
TimerFires(u) ==
  /\ u \in ctx.timers
  /\ ctx' = [ctx EXCEPT !.timers = @ \ {u}, !.fetches = @ \cup FetchesFor(u)]
  /\ UNCHANGED <<storeVars, req, started, last, histVars, faults, bal0, apiKey,
                 form, quote, sent, charged>>

\* getSession() resolves, once after mounting, with the session the client
\* holds: setSession, setUser, and the fetches start if there is a user
GetSession ==
  /\ ~ctx.checked
  /\ ctx' = [ctx EXCEPT
       !.checked = TRUE, !.user = ctx.token,
       !.fetches = IF ctx.token # NoUser THEN @ \cup FetchesFor(ctx.token)
                   ELSE @]
  /\ UNCHANGED <<storeVars, req, started, last, histVars, faults, bal0, apiKey,
                 form, quote, sent, charged>>

\* refreshCredits: `if (user) await fetchCredits(user.id)`
RefreshCredits ==
  /\ started < MaxReq
  /\ ctx.user # NoUser
  /\ started' = started + 1
  /\ ctx' = [ctx EXCEPT !.fetches = @ \cup
       {[kind |-> "credits", user |-> ctx.user, sent |-> ctx.token = ctx.user]}]
  /\ UNCHANGED <<storeVars, req, last, histVars, faults, bal0, apiKey, form,
                 quote, sent, charged>>

\* `if (error) throw error; setProfile(data)` / `setCredits(data)`; an error
\* is logged and nothing is set
FetchedState(f, ok) ==
  IF ok
    THEN IF f.kind = "profile"
           THEN [ctx EXCEPT !.profile = <<f.user>>]
           ELSE [ctx EXCEPT !.credits = <<[user |-> f.user,
                                          amount |-> credits[f.user][1]]>>]
    ELSE ctx

\* the request of a fetch in flight is answered: with the row if it was sent
\* with the owner's session, .single() finds exactly one row and the call
\* does not fail
FetchResolves(f, fail) ==
  /\ f \in ctx.fetches
  /\ LET ok == /\ ~fail /\ f.sent
               /\ f.kind = "credits" => SingleOk(RowsOf(f.user))
     IN  ctx' = [FetchedState(f, ok) EXCEPT !.fetches = @ \ {f}]
  /\ UNCHANGED <<storeVars, req, started, last, histVars, faults, bal0, apiKey,
                 form, quote, sent, charged>>

\* signOut is called: `await supabase.auth.signOut()` is pending
SignOutStart ==
  /\ started < MaxReq
  /\ ctx.token # NoUser /\ ~ctx.signingOut
  /\ started' = started + 1
  /\ ctx' = [ctx EXCEPT !.signingOut = TRUE]
  /\ UNCHANGED <<storeVars, req, last, histVars, faults, bal0, apiKey, form,
                 quote, sent, charged>>

\* supabase.auth.signOut() resolves.  On success the client has dropped the
\* session, the onAuthStateChange callback has run with a null session and
\* signOut sets user, session, profile and credits to null; on an error
\* nothing is set.
SignOutEnd(ok) ==
  /\ ctx.signingOut
  /\ ctx' = IF ok
              THEN [ctx EXCEPT !.signingOut = FALSE, !.token = NoUser,
                               !.user = NoUser, !.profile = <<>>,
                               !.credits = <<>>]
              ELSE [ctx EXCEPT !.signingOut = FALSE]
  /\ UNCHANGED <<storeVars, req, started, last, histVars, faults, bal0, apiKey,
                 form, quote, sent, charged>>

\* ------------------------------------------------------------ specification
\* the functions that move credits: generate-code, process-payment,
\* approve-payment
Next ==
  \/ \E r \in Reqs, cred \in UserCreds, body \in GenBodies, f \in BOOLEAN :
       GenerateStart(r, cred, body, f)
  \/ \E r \in Reqs, outcome \in {"ok", "error", "empty"} :
       GenerateProvider(r, outcome)
  \/ \E r \in Reqs, F \in SUBSET {"debit", "log", "save"} : GenerateDebit(r, F)
  \/ \E r \in Reqs, cred \in UserCreds, m \in MethodIds, a \in Amounts,
        f \in {"none", "lookup", "insert"} : SubmitStart(r, cred, m, a, f)
  \/ \E r \in Reqs : SubmitUpsert(r)
  \/ \E m \in MethodNames \ {"manual"}, enabled \in BOOLEAN :
       UpdatePaymentMethod(m, enabled)
  \/ \E r \in Reqs, cred \in Creds, t \in 1..(Len(payments) + 1),
        status \in ReviewStatuses, c \in Awards,
        F \in SUBSET {"role", "fetch", "update", "alog"} :
       ReviewStart(r, cred, t, status, c, F)
  \/ \E r \in Reqs, f \in BOOLEAN : ReviewRead(r, f)
  \/ \E r \in Reqs, F \in SUBSET {"award", "log", "alog"} : ReviewAward(r, F)

Spec == Init /\ [][Next]_vars

\* the payment functions together with the admin's API-key function
NextAdmin ==
  \/ \E r \in Reqs, cred \in UserCreds, m \in MethodIds, a \in Amounts,
        f \in {"none", "lookup", "insert"} : SubmitStart(r, cred, m, a, f)
  \/ \E r \in Reqs : SubmitUpsert(r)
  \/ \E m \in MethodNames \ {"manual"}, enabled \in BOOLEAN :
       UpdatePaymentMethod(m, enabled)
  \/ \E r \in Reqs, cred \in Creds, t \in 1..(Len(payments) + 1),
        status \in RequestStatuses, c \in Awards,
        F \in SUBSET {"role", "fetch", "update", "alog"} :
       ReviewStart(r, cred, t, status, c, F)
  \/ \E r \in Reqs, cred \in Creds, key \in KeyNames, value \in KeyValues,
        F \in SUBSET {"role", "upsert", "alog"} :
       UpdateApiKey(r, cred, key, value, F)
  \/ \E r \in Reqs, f \in BOOLEAN : ReviewRead(r, f)
  \/ \E r \in Reqs, F \in SUBSET {"award", "log", "alog"} : ReviewAward(r, F)

SpecAdmin == Init /\ [][NextAdmin]_vars

\* The Generate page and the cost computed by the server for its requests.
NextForm ==
  \/ \E c \in ComplexityValues : SetComplexity(c)
  \/ \E b \in BOOLEAN : SetIncludeTests(b)
  \/ \E l \in Languages : SelectLanguage(l)
  \/ \E v \in {"none-selected", "React"} : SelectFramework(v)
  \/ FormGenerate
  \/ \E body \in ApiBodies : ApiGenerate(body)

SpecForm == Init /\ [][NextForm]_vars

\* clients acting on the store directly
NextClient ==
  \/ \E u \in Users, target \in Users, v \in ClientAmounts :
       ClientUpdateCredits(u, target, v)
  \/ \E u \in Users, target \in Users, v \in ClientAmounts :
       ClientInsertCredits(u, target, v)

SpecClient == Init /\ [][NextClient]_vars

\* people creating accounts
NextSignup ==
  \E n \in Newcomers, code \in ReferralCodes : SignUp(n, code)

SpecSignup == Init /\ [][NextSignup]_vars

\* the client auth context of one browser
NextAuth ==
  \/ \E u \in ClientUsers : SignIn(u)
  \/ \E u \in ClientUsers : TimerFires(u)
  \/ GetSession
  \/ RefreshCredits
  \/ \E f \in ctx.fetches, fail \in BOOLEAN : FetchResolves(f, fail)
  \/ SignOutStart
  \/ \E ok \in BOOLEAN : SignOutEnd(ok)

SpecAuth == Init /\ [][NextAuth]_vars

\* ------------------------------------------------------------------ claims
\* no handler is in flight
Quiescent == \A r \in Reqs : req[r].pc = "idle"

\* a reviewPayment request arrives and runs up to its status update
ReviewStep ==
  \E r \in Reqs, cred \in Creds, t \in 1..(Len(payments) + 1),
     status \in ReviewStatuses, c \in Awards,
     F \in SUBSET {"role", "fetch", "update", "alog"} :
    ReviewStart(r, cred, t, status, c, F)

\* C1: whenever all requests made so far have completed and no store call
\* has failed (so no response reported a storage error), every user has one
\* balance row whose amount is the sum of the amounts of the user's ledger
\* entries.
C1_BalanceIsLedgerSum ==
  (Quiescent /\ ~reported /\ faults = 0) =>
    \A u \in Users : credits[u] = <<LedgerSum(u)>>

\* C2: with no store call failing, no generation charged and only manual
\* payments submitted, approvals of one payment raise the owner's balance at
\* most once: every manual payment has at most one purchase entry, and with
\* a single payment the balance is at most the initial one plus one of the
\* creditsToAward values.
C2_AwardedAtMostOnce ==
  (faults = 0 /\ okCost = 0 /\
   \A t \in DOMAIN payments : payments[t].method = "manual") =>
    /\ \A t \in DOMAIN payments : PurchaseCount(t) <= 1
    /\ Len(payments) = 1 =>
         \E c \in Awards : \A i \in DOMAIN credits[payments[1].user] :
           credits[payments[1].user][i] <= bal0[payments[1].user] + c

\* C3: a reviewPayment request never changes the status or credits_awarded
\* of a transaction whose status is not pending.
C3_ReviewOnlyPending ==
  [][ReviewStep =>
       \A t \in DOMAIN payments :
         payments[t].status # "pending" => payments'[t] = payments[t]]_vars

\* C4: with no payment submitted and no store call failing, once all
\* generate requests have completed the balance of u1 is the initial balance
\* minus the costs charged by the successful ones.
C4_NoLostDebit ==
  (Quiescent /\ faults = 0 /\ payments = <<>>) =>
    credits["u1"] = <<bal0["u1"] - okCost>>

\* the records kept for a user's credits and generations
Holdings == <<credits, ledger, generations>>

\* a provider call of slot r returns without usable text
ProviderFailure(r) ==
  \E outcome \in {"error", "empty"} : GenerateProvider(r, outcome)

\* C5: a provider call that errors or returns no text ends the request with
\* a provider error and changes neither balances, ledger nor generation
\* records; a request is at its debit only after the provider answered with
\* text, and no request with a failed provider call is answered otherwise.
C5_ProviderFailureChangesNothing ==
  /\ [][\A r \in Reqs : ProviderFailure(r) =>
          /\ req'[r].pc = "idle"
          /\ last'.result = "ProviderError"
          /\ UNCHANGED Holdings]_vars
  /\ [](\A r \in Reqs : req[r].pc = "debit" => req[r].provider = "ok")
  /\ [](last.provider \in {"error", "empty"} => last.result = "ProviderError")

\* A generate request was answered with a provider error; the account still
\* holds its initial balance.
C5_Witness ==
  /\ last.kind = "generate" /\ last.provider = "empty"
  /\ last.result = "ProviderError"
  /\ last.body.complexity = "advanced"
  /\ credits[last.user] = <<bal0[last.user]>>
  /\ okCost = 0 /\ started = 1

\* a generate request of an authenticated user arrives in slot r
GenerateArrives(r, u) ==
  \E body \in GenBodies, f \in BOOLEAN : GenerateStart(r, u, body, f)

\* C6: a generate request of a user whose balance is 0 is answered at once
\* with the insufficient-credits error, whatever its body, and changes
\* neither balances, ledger nor generation records; no request that read a
\* balance of 0 is answered otherwise.
C6_ZeroBalanceRefused ==
  /\ [][\A r \in Reqs, u \in Users :
          (GenerateArrives(r, u) /\ credits[u] = <<0>>) =>
            /\ req'[r].pc = "idle"
            /\ last'.result = "InsufficientFunds"
            /\ UNCHANGED Holdings]_vars
  /\ []((last.kind = "generate" /\ last.user \in Users /\ ~last.err
         /\ last.bal = 0) => last.result = "InsufficientFunds")

\* A generate request asking for every option was refused on a balance of 0.
C6_Witness ==
  /\ last.kind = "generate" /\ last.user = "u1" /\ ~last.err /\ last.bal = 0
  /\ last.result = "InsufficientFunds"
  /\ last.body.complexity = "advanced" /\ last.body.includeTests
  /\ credits["u1"] = <<0>>

\* a submitPayment request through the enabled manual method is stored
ManualSubmit(r, u) ==
  /\ methods["manual"]
  /\ \E a \in Amounts : SubmitStart(r, u, "manual", a, "none")

\* the handler steps that write a balance
GenerateDebits(r) == req[r].kind = "generate" /\ req[r].pc = "debit"
AutomatedCredits(r) ==
  req[r].kind = "submit" /\ req[r].pc = "upsert" /\ req[r].method # "manual"
ApprovalAwards(r) ==
  req[r].kind = "review" /\ req[r].pc = "award" /\ req[r].status = "approved"

\* C7: a submitPayment through the manual method appends a transaction with
\* status pending and credits_awarded 0, is answered with success and changes
\* neither balances nor ledger; a purchase entry referencing a manual
\* payment is appended only by the award step of an approving review of that
\* payment, and a balance is written only by a debit, by the credit step of
\* an automated payment or by the award step of an approving review.
C7_ManualSubmitAwardsNothing ==
  /\ [][\A r \in Reqs, u \in Users : ManualSubmit(r, u) =>
          /\ payments' = Append(payments,
               [user |-> u, method |-> "manual", status |-> "pending",
                credits_awarded |-> 0, amount |-> last'.amount])
          /\ req'[r].pc = "idle" /\ last'.result = "ok"
          /\ UNCHANGED <<credits, ledger>>]_vars
  /\ [][\A t \in DOMAIN payments :
          (payments[t].method = "manual" /\ PurchaseCount(t)' # PurchaseCount(t))
            => \E r \in Reqs : ApprovalAwards(r) /\ req[r].tx = t]_vars
  /\ [][credits' # credits =>
          \E r \in Reqs :
            /\ GenerateDebits(r) \/ AutomatedCredits(r) \/ ApprovalAwards(r)
            /\ req'[r].pc # req[r].pc]_vars

\* A manual payment was submitted with success and is pending; the balance of
\* its owner is the initial one.
C7_Witness ==
  /\ last.kind = "submit" /\ last.method = "manual" /\ last.result = "ok"
  /\ last.tx \in DOMAIN payments
  /\ payments[last.tx].status = "pending"
  /\ payments[last.tx].credits_awarded = 0
  /\ credits[last.user] = <<bal0[last.user]>>
  /\ LedgerSum(last.user) = bal0[last.user]

\* an admin's rejection of transaction t is stored
Rejection(r, t, c) ==
  \E F \in SUBSET {"alog"} : ReviewStart(r, "adm", t, "rejected", c, F)

\* C8: a rejection of a pending payment by an admin sets its status to
\* rejected and credits_awarded to 0, is answered with success and changes
\* neither balances nor ledger, whatever creditsToAward it carries; only
\* approvals with creditsToAward > 0 go on to the award steps.
C8_RejectionAwardsNothing ==
  /\ [][\A r \in Reqs, t \in DOMAIN payments, c \in Awards :
          (Rejection(r, t, c) /\ payments[t].status = "pending") =>
            /\ payments'[t].status = "rejected"
            /\ payments'[t].credits_awarded = 0
            /\ req'[r].pc = "idle" /\ last'.result = "ok"
            /\ UNCHANGED <<credits, ledger>>]_vars
  /\ [](\A r \in Reqs :
          (req[r].kind = "review" /\ req[r].pc \in {"read", "award"}) =>
            req[r].status = "approved" /\ req[r].c > 0)

\* The second request of the behaviour, a rejection carrying creditsToAward
\* 5, was answered with success: the payment is rejected with nothing
\* awarded and its owner holds the initial balance.
C8_Witness ==
  /\ started = 2 /\ Quiescent
  /\ last.kind = "review" /\ last.status = "rejected" /\ last.c > 0
  /\ last.result = "ok"
  /\ payments[last.tx].status = "rejected"
  /\ payments[last.tx].credits_awarded = 0
  /\ credits[payments[last.tx].user] = <<bal0[payments[last.tx].user]>>
  /\ PurchaseCount(last.tx) = 0

\* C9: for every request body received whose complexity is simple,
\* intermediate or advanced, the credits the server computes are the base
\* cost of the complexity plus 1 with tests plus 1 with a framework:
\* 4 for advanced with tests and a framework, 1 for simple alone.
C9_ServerCostFormula ==
  LET BaseCost(c) ==
        CASE c = "simple" -> 1 [] c = "intermediate" -> 1 [] c = "advanced" -> 2
      ListPrice(body) ==
        BaseCost(body.complexity)
          + (IF body.includeTests THEN 1 ELSE 0)
          + (IF body.framework \notin {Undefined, ""} THEN 1 ELSE 0)
  IN  /\ sent.complexity \in ComplexityValues => charged = ListPrice(sent)
      /\ (sent.complexity = "advanced" /\ sent.includeTests
          /\ sent.framework = "React") => charged = 4
      /\ (sent.complexity = "simple" /\ ~sent.includeTests
          /\ sent.framework = Undefined) => charged = 1

\* The server priced a request for advanced code with tests and a framework.
C9_Witness ==
  /\ sent.complexity = "advanced" /\ sent.includeTests
  /\ sent.framework = "React" /\ charged = 4

\* C10: in every state of the form the estimate calculateCredits shows is
\* the cost the server computes for the request generateCode builds from that
\* state, and after a submission from the form the cost computed by the
\* server is not above the estimate made at the submission.
C10_QuoteIsCharge ==
  /\ calculateCredits(form) = creditsToDeduct(BuildBody(form))
  /\ (sent = BuildBody(form) /\ quote = calculateCredits(form)) =>
       charged <= quote

\* A request was submitted from the form with a framework chosen and tests
\* switched on; the server computed the cost the page had shown.
C10_Witness ==
  /\ form.framework = "React" /\ form.includeTests
  /\ sent = BuildBody(form)
  /\ quote = calculateCredits(form)
  /\ charged = quote

\* the last answer is the success of a submitPayment through an automated
\* method, and no other request has been made since the method was enabled
AutomatedSubmitDone ==
  /\ Quiescent /\ faults = 0 /\ started = 2
  /\ last.kind = "submit" /\ last.method # "manual" /\ last.result = "ok"

\* C11: after a successful submitPayment of amount a through an automated
\* method the user's balance is the old balance plus floor(a), one purchase
\* entry of floor(a) references the payment transaction, and the transaction
\* is completed with credits_awarded = floor(a).
C11_AutomatedSubmitCredits ==
  AutomatedSubmitDone =>
    /\ credits[last.user] = <<bal0[last.user] + Floor100(last.amount)>>
    /\ PurchaseCount(last.tx) = 1
    /\ PurchaseSum(last.tx) = Floor100(last.amount)
    /\ payments[last.tx].status = "completed"
    /\ payments[last.tx].credits_awarded = Floor100(last.amount)

\* C12: when the credit step of an automated submitPayment fails, the
\* request is not answered with success and the transaction stays in
\* status processing.
C12_CreditFailureReported ==
  [][\A r \in Reqs :
       (SubmitUpsert(r) /\ ~OnConflictMatches("user_id")) =>
         /\ last'.result # "ok"
         /\ payments'[req[r].tx].status = "processing"]_vars

\* the award step of slot r runs with no store call failing, after a
\* successful read whose value is still the amount stored
AwardAlone(r) ==
  /\ ReviewAward(r, {})
  /\ ~req[r].err
  /\ credits[Owner(r)] = <<req[r].bal>>

\* the second request of the behaviour, an approval with creditsToAward > 0
\* of the manual payment submitted before it, was answered with success and
\* no store call failed
ApprovedAlone ==
  /\ Quiescent /\ faults = 0 /\ started = 2
  /\ last.kind = "review" /\ last.status = "approved" /\ last.c > 0
  /\ last.result = "ok"

C14_SuccessMeansAwarded ==
  (/\ Quiescent /\ started = 2
   /\ last.kind = "review" /\ last.status = "approved" /\ last.c > 0
   /\ last.result = "ok") =>
    /\ credits[payments[last.tx].user]
         = <<bal0[payments[last.tx].user] + last.c>>
    /\ PurchaseCount(last.tx) = 1

\* a request to an admin-only function (approve-payment, update-api-key)
\* by caller cred arrives in slot r; such a step counts the request and
\* leaves the caller either in the slot or in the answer
AdminOnlyRequest(r, cred) ==
  \/ \E t \in 1..(Len(payments) + 1), status \in RequestStatuses, c \in Awards,
        F \in SUBSET {"role", "fetch", "update", "alog"} :
       ReviewStart(r, cred, t, status, c, F)
  \/ \E key \in KeyNames, value \in KeyValues,
        F \in SUBSET {"role", "upsert", "alog"} :
       UpdateApiKey(r, cred, key, value, F)

\* C15: a request to approve-payment or update-api-key by an authenticated
\* caller whose role is not admin is answered with the admin-required error
\* and changes neither payment transactions, balances, ledger, admin logs
\* nor the stored API key.
C15_AdminOnly ==
  [][\A r \in Reqs, cred \in Users :
       (/\ RoleOf(cred) # "admin"
        /\ started' = started + 1
        /\ cred \in {last'.user, req'[r].user}
        /\ AdminOnlyRequest(r, cred)) =>
         /\ req'[r].pc = "idle"
         /\ last'.result = "Forbidden" /\ last'.user = cred
         /\ UNCHANGED <<payments, credits, ledger, adminLogs, apiKey>>]_vars

\* u1, not an admin, asked for a review while its own payment was pending:
\* refused, the payment is still pending and no credits were awarded.
C15_Witness ==
  /\ last.kind = "review" /\ last.user = "u1" /\ last.result = "Forbidden"
  /\ Len(payments) = 1 /\ payments[1].status = "pending"
  /\ credits["u1"] = <<bal0["u1"]>>
  /\ adminLogs = EmptyBag /\ apiKey = ""

\* C16: a non-admin client acting directly on the store cannot change the
\* amount of any balance row: after every statement such a client issues,
\* each balance row that existed before still holds the same amount.
C16_ClientCannotChangeBalance ==
  [][\A u \in Users, target \in Users, v \in ClientAmounts :
       (/\ RoleOf(u) # "admin"
        /\ ClientUpdateCredits(u, target, v) \/ ClientInsertCredits(u, target, v))
       => \A o \in Users : \A i \in 1..Len(credits[o]) :
            credits'[o][i] = credits[o][i]]_vars

\* C17: a generate request that read a balance of at least 1 but below the
\* computed cost is answered InsufficientFunds without any call to the
\* completion provider having been made for it.
C17_InsufficientBeforeProvider ==
  (/\ last.kind = "generate" /\ last.pc = "done" /\ ~last.err
   /\ last.bal >= 1 /\ last.bal < creditsToDeduct(last.body))
  => /\ last.result = "InsufficientFunds"
     /\ last.provider = "none"

\* C18: in every state reachable by interleaved generate, submitPayment and
\* reviewPayment requests, whatever amounts and creditsToAward they carry,
\* no balance row holds a negative amount.
C18_BalanceNeverNegative ==
  \A u \in Users : \A i \in 1..Len(credits[u]) : credits[u][i] >= 0

\* An automated payment with a negative amount was submitted and an approval
\* carrying a negative creditsToAward was answered with success; the balances
\* are still non-negative.
C18_Witness ==
  /\ last.kind = "review" /\ last.status = "approved" /\ last.c < 0
  /\ last.result = "ok"
  /\ \E t \in DOMAIN payments :
       /\ payments[t].amount < 0 /\ payments[t].method # "manual"
       /\ payments[t].credits_awarded < 0
  /\ C18_BalanceNeverNegative

\* C19: in every reachable state each user has exactly one balance row,
\* also when a balance read has failed transiently.
C19_OneBalanceRow == \A u \in Users : Len(credits[u]) = 1

\* C20: in every reachable state a payment transaction whose status is not
\* final (pending or processing) has credits_awarded = 0.
C20_NoAwardBeforeFinal ==
  \A t \in DOMAIN payments :
    payments[t].status \in {"pending", "processing"} =>
      payments[t].credits_awarded = 0

\* number of bonus entries of user u
BonusCount(u) ==
  LET S == {e \in BagToSet(ledger) : e.type = "bonus" /\ e.user = u}
  IN  IF S = {} THEN 0 ELSE BagCardinality([e \in S |-> ledger[e]])

\* C21: account creation gives the new user exactly one balance row holding
\* 50 and exactly one ledger entry, a bonus of +50, in the same step: right
\* after signup the new user's balance is the sum of their ledger.
C21_SignupGrant ==
  [][\A n \in Newcomers, code \in ReferralCodes :
       SignUp(n, code) =>
         /\ n \notin DOMAIN credits /\ BonusCount(n) = 0 /\ LedgerSum(n) = 0
         /\ credits'[n] = <<50>>
         /\ BonusCount(n)' = 1
         /\ LedgerSum(n)' = 50
         /\ credits'[n] = <<LedgerSum(n)'>>]_vars

\* Two people have signed up, the second with the referral code of the first.
C21_Witness ==
  /\ {"n1", "n2"} \subseteq DOMAIN credits
  /\ credits["n2"] = <<50>> /\ BonusCount("n2") = 1
  /\ credits["n1"] = <<100>> /\ BonusCount("n1") = 2

\* a generate request lacking prompt or language arrives in slot r
MissingFieldsRequest(r) ==
  /\ started' = started + 1
  /\ \E cred \in Users, body \in GenBodies, f \in BOOLEAN :
       /\ ~body.prompt \/ ~body.language
       /\ GenerateStart(r, cred, body, f)

\* a generate request arrives in slot r and reads a balance below 1, or the
\* request of slot r gets the provider's text and its cost is above the
\* balance it read
InsufficientRequest(r) ==
  \/ /\ started' = started + 1
     /\ \E cred \in Users, body \in GenBodies :
          /\ SingleOk(credits[cred]) /\ credits[cred][1] < 1
          /\ GenerateStart(r, cred, body, FALSE)
  \/ /\ req[r].bal < creditsToDeduct(req[r].body)
     /\ GenerateProvider(r, "ok")

\* a submitPayment request naming an unknown or disabled method arrives
InvalidMethodRequest(r) ==
  /\ started' = started + 1
  /\ \E cred \in Users, m \in MethodIds, a \in Amounts :
       /\ m \notin MethodNames \/ ~methods[m]
       /\ SubmitStart(r, cred, m, a, "none")

\* C22: a generate request with missing prompt or language, a generate
\* request whose balance is insufficient and a submitPayment naming an
\* unknown or disabled method are answered with the validation error, and the
\* step leaves balances, ledger, payment transactions and generation records
\* as they were; a generate request not yet at its debit has written nothing.
C22_ValidationChangesNothing ==
  [][\A r \in Reqs :
       /\ MissingFieldsRequest(r) =>
            /\ req'[r].pc = "idle"
            /\ last'.result \in {"MissingFields", "InsufficientFunds"}
            /\ UNCHANGED <<credits, ledger, payments, generations>>
       /\ InsufficientRequest(r) =>
            /\ req'[r].pc = "idle"
            /\ last'.result = "InsufficientFunds"
            /\ UNCHANGED <<credits, ledger, payments, generations>>
       /\ InvalidMethodRequest(r) =>
            /\ req'[r].pc = "idle"
            /\ last'.result = "InvalidMethod"
            /\ UNCHANGED <<credits, ledger, payments, generations>>
       /\ (req[r].kind = "generate" /\ req'[r].kind = "generate"
           /\ req'[r].pc # "idle") =>
            (credits' = credits /\ ledger' = ledger
             /\ generations' = generations)
            \/ \E q \in Reqs \ {r} : req'[q] # req[q]]_vars

\* u1's balance no longer covers a generation of cost 4: the request was
\* refused after the provider had answered, and u1 holds what it held.
C22_Witness ==
  /\ last.kind = "generate" /\ last.result = "InsufficientFunds"
  /\ last.provider = "ok" /\ ~last.err
  /\ last.bal >= 1 /\ last.bal < creditsToDeduct(last.body)
  /\ credits[last.user] = <<last.bal>>
  /\ LedgerSum(last.user) = last.bal

\* a generate, submitPayment or reviewPayment request carrying credential
\* cred arrives in slot r
RequestWith(r, cred) ==
  \/ \E body \in GenBodies, f \in BOOLEAN : GenerateStart(r, cred, body, f)
  \/ \E m \in MethodIds, a \in Amounts, f \in {"none", "lookup", "insert"} :
       SubmitStart(r, cred, m, a, f)
  \/ \E t \in 1..(Len(payments) + 1), status \in ReviewStatuses, c \in Awards,
        F \in SUBSET {"role", "fetch", "update", "alog"} :
       ReviewStart(r, cred, t, status, c, F)

\* C23: a generate, submitPayment or reviewPayment request without an
\* Authorization header, or with a token that resolves to no user, is
\* answered with the authentication error in the step it arrives, which
\* changes nothing in the store; every handler that goes on to a store write
\* or to the completion provider runs for a resolved user.
C23_Unauthenticated ==
  /\ [][\A r \in Reqs, cred \in Creds \ Users :
          (/\ started' = started + 1
           /\ last'.user \notin Users
                \/ (req'[r].pc # "idle" /\ req'[r].user \notin Users)
           /\ RequestWith(r, cred)) =>
            /\ req'[r].pc = "idle"
            /\ last'.result = "AuthFailed" /\ last'.provider = "none"
            /\ UNCHANGED storeVars]_vars
  /\ [](\A r \in Reqs : req[r].pc # "idle" => req[r].user \in Users)

\* A review request with no valid credential was refused while a payment was
\* pending: the payment is still pending and nothing was awarded.
C23_Witness ==
  /\ last.kind = "review" /\ last.result = "AuthFailed" /\ last.user = NoUser
  /\ Len(payments) = 1 /\ payments[1].status = "pending"
  /\ credits = [u \in Users |-> <<bal0[u]>>]
  /\ adminLogs = EmptyBag

\* C24: reviewPayment answers 403 when the caller is authenticated but not
\* admin, 404 when the transaction does not exist, and 500 only when the
\* credit award fails.
C24_ReviewErrorCodes ==
  last.kind = "review" =>
    /\ last.result = "Forbidden" => ReviewHttpStatus(last.result) = 403
    /\ last.result = "NotFound" => ReviewHttpStatus(last.result) = 404
    /\ ReviewHttpStatus(last.result) = 500 => last.result = "StorageError"

\* the debit step of slot r runs with no store call failing, and the balance
\* the request read at its start is still the amount stored
DebitAlone(r) ==
  /\ GenerateDebit(r, {})
  /\ credits[req[r].user] = <<req[r].bal>>

\* the only request made so far, a generate request, was answered with success
GeneratedAlone ==
  /\ Quiescent /\ started = 1
  /\ last.kind = "generate" /\ last.result = "ok"

\* the state after one successful generation of the cost in the answer
ChargedOnce ==
  /\ credits[last.user] = <<bal0[last.user] - CreditsUsed(last)>>
  /\ ledger = AddEntry(FreshLedger (+) AgedUsage,
                       UsageEntry(last.user, CreditsUsed(last)))
  /\ generations = AddEntry(AgedGenerations,
                            [user |-> last.user,
                             credits_used |-> CreditsUsed(last)])
  /\ RemainingCredits(last) = credits[last.user][1]

AwardedTo(u) ==
  SumOver({e \in BagToSet(ledger) : e.type = "purchase" /\ e.user = u}, ledger)

\* C26: when approvals of u1's pending payments and generate requests of u1
\* have run, concurrently or not, with no store call failing, u1's balance
\* is the initial balance plus all credits awarded minus all costs charged.
C26_NoOverwrite ==
  (/\ Quiescent /\ faults = 0
   /\ \E t \in DOMAIN payments :
        payments[t].user = "u1" /\ payments[t].status = "approved")
  => credits["u1"] = <<bal0["u1"] + AwardedTo("u1") - okCost>>

\* the form shows no framework chosen: its initial state, the state after a
\* language was picked, or "None" picked in the framework select
NoFrameworkChosen == form.framework \in {"none-selected", ""}

\* C27: a generation submitted from the form while no framework is chosen
\* is quoted and charged the base cost of its complexity plus 1 with tests,
\* with no framework surcharge.
C27_NoFrameworkNoSurcharge ==
  (/\ NoFrameworkChosen
   /\ sent = BuildBody(form) /\ quote = calculateCredits(form))
  => /\ quote = LevelCredits(form.complexity)
                  + (IF form.includeTests THEN 1 ELSE 0)
     /\ charged = quote

\* C28: in every reachable state the status of every payment transaction is
\* one of pending, processing, completed, approved, rejected, whatever status
\* a reviewPayment request carries.
C28_StatusDomain ==
  \A t \in DOMAIN payments :
    payments[t].status \in
      {"pending", "processing", "completed", "approved", "rejected"}

\* C29: whenever no request is in flight and no store call has failed, the
\* credits_awarded of every payment transaction is the sum of the amounts of
\* the purchase entries whose reference_id is that transaction.
C29_AwardedIsLedger ==
  (Quiescent /\ faults = 0) =>
    \A t \in DOMAIN payments : payments[t].credits_awarded = PurchaseSum(t)

\* C30: while the auth context holds no user (signOut has completed, or a
\* null session was delivered, and no new session has been established) its
\* profile and credits are null, also when a fetchProfile or fetchCredits
\* call started before the sign-out is answered afterwards.
C30_SignedOutStaysNull ==
  ctx.user = NoUser => (ctx.profile = <<>> /\ ctx.credits = <<>>)

====
